---- MODULE Spec2Model ----
(***************************************************************************)
(* The extract endpoint of jupyterlab_qzv (ExtractQzvHandler) and the      *)
(* retention sweep of ~/_qiime, as a state machine over the filesystem,    *)
(* and the create-archive endpoint of jupyter_archive (ArchiveHandler)     *)
(* with its ZipStream, as a state machine over the response.               *)
(*                                                                         *)
(* Paths are sequences of path segments counted from "/".  File names and  *)
(* format tokens are sequences of one-character strings, so that suffix    *)
(* tests are made character by character as str.endswith makes them.       *)
(* An archive entry name is the sequence obtained by splitting the stored  *)
(* name at "/" ("../test" is <<"..", "test">>, "./" is <<".", "">>).       *)
(***************************************************************************)
EXTENDS Integers, Sequences, FiniteSets, TLC

\* ---------------------------------------------------------------- bounds
\* The last day of the calendar the model follows.
MaxDay == 11

\* The number of calls made on the ZipStreams by callers that are not codecs.
MaxCalls == 5

\* ------------------------------------------------------ program constants
interval_threshold == 10

QIIME_DIR_NAME == "_qiime"

QIIME_TIMESTAMP_FILE == "_created"

\* Path.home()
HomeDir == <<"home">>

\* Content of an extracted payload file (a marker holds its date instead).
Payload == -1

\* --------------------------------------------------------------- archives
\* The archive files a request can name: file name, container the bytes
\* really are, and the stored entry names in listing order.
Archives ==
  << [name |-> <<"b", ".", "q", "z", "v">>, container |-> "zip",
      entries |-> << <<"u2", "f1">> >>],
     [name |-> <<"m", ".", "q", "z", "v">>, container |-> "zip",
      entries |-> << <<"u1", "f1">>, <<"u2", "f1">> >>],
     [name |-> <<"v", ".", "q", "z", "v">>, container |-> "zip",
      entries |-> << <<"u1", "f1">>, <<"..", "test">> >>],
     [name |-> <<"t", ".", "t", "a", "r", ".", "g", "z">>, container |-> "tar",
      entries |-> << <<"..", "test">> >>],
     [name |-> <<"e", ".", "q", "z", "v">>, container |-> "zip",
      entries |-> << >>],
     [name |-> <<"x", ".", "z", "i", "p">>, container |-> "zip",
      entries |-> << <<"u1", "f1">> >>],
     [name |-> <<"x", ".", "p", "z", "i", "p">>, container |-> "zip",
      entries |-> << <<"u1", "f1">> >>],
     [name |-> <<"d", ".", "q", "z", "v">>, container |-> "zip",
      entries |-> << <<".", "">> >>] >>

ArchiveIds == 1..Len(Archives)

\* Archives whose first entry starts with "..", with the absolute root or with
\* ".", and an archive of two files in one directory.
EdgeArchives ==
  << [name |-> <<"p", ".", "q", "z", "v">>, container |-> "zip",
      entries |-> << <<"..", "x">> >>],
     [name |-> <<"r", ".", "q", "z", "v">>, container |-> "zip",
      entries |-> << <<"", "x">> >>],
     [name |-> <<"s", ".", "q", "z", "v">>, container |-> "zip",
      entries |-> << <<".", "u1", "f1">> >>],
     [name |-> <<"w", ".", "q", "z", "v">>, container |-> "zip",
      entries |-> << <<"u2", "f1">>, <<"u2", "f2">> >>] >>

EdgeIds == (Len(Archives) + 1)..(Len(Archives) + Len(EdgeArchives))

\* ---------------------------------------------------------- source trees
\* The directories a create-archive request can name: the base name of the
\* directory and what is under it in listing order, each node with its path
\* from the directory and its kind (regular file, directory, symbolic link
\* to a file, symbolic link to a directory).
Trees ==
  << [base |-> <<"T">>,
      nodes |-> << [path |-> <<"a">>, kind |-> "dir"],
                   [path |-> <<"a", "f1">>, kind |-> "file"] >>],
     [base |-> <<"T">>,
      nodes |-> << [path |-> <<"f">>, kind |-> "file"],
                   [path |-> <<"a">>, kind |-> "dir"],
                   [path |-> <<"a", "f1">>, kind |-> "file"] >>],
     [base |-> <<"T">>, nodes |-> << >>],
     [base |-> <<"T">>,
      nodes |-> << [path |-> <<"a">>, kind |-> "dir"],
                   [path |-> <<"a", "b">>, kind |-> "dir"],
                   [path |-> <<"a", "b", "f1">>, kind |-> "file"],
                   [path |-> <<"a", "f2">>, kind |-> "file"],
                   [path |-> <<"l">>, kind |-> "linkfile"],
                   [path |-> <<"ld">>, kind |-> "linkdir"] >>] >>

TreeIds == 1..Len(Trees)

\* The archiveFormat arguments a request can carry.
Formats == {<<"z", "i", "p">>, <<"t", "g", "z">>, <<"t", "a", "r">>}

\* The archiveToken argument.
Tokens == {"tok"}

\* The requests in flight at one time, and the idle event loop.
Reqs == {"r1", "r2"}

\* The create-archive requests in flight at one time.
Writers == {"w1", "w2"}

NoReq == "none"

VARIABLES day, dirs, files, req, loop, areq, resp, stream

\* The state of the create-archive endpoint: its requests, their responses
\* and their ZipStream objects.
avars == <<areq, resp, stream>>

vars == <<day, dirs, files, req, loop, areq, resp, stream>>

\* ------------------------------------------------------------ path helpers
IsPrefix(p, q) == Len(p) <= Len(q) /\ SubSeq(q, 1, Len(p)) = p

Parent(p) == SubSeq(p, 1, Len(p) - 1)

RECURSIVE FilterSeq(_, _)
FilterSeq(s, drop) ==
  IF s = << >> THEN << >>
  ELSE IF Head(s) \in drop THEN FilterSeq(Tail(s), drop)
       ELSE <<Head(s)>> \o FilterSeq(Tail(s), drop)

\* What the operating system makes of a path with ".." segments (no symlinks).
RECURSIVE Resolve(_, _)
Resolve(acc, segs) ==
  IF segs = << >> THEN acc
  ELSE IF Head(segs) = ".."
       THEN Resolve(IF acc = << >> THEN acc ELSE Parent(acc), Tail(segs))
       ELSE Resolve(Append(acc, Head(segs)), Tail(segs))

EndsWith(s, t) ==
  Len(t) <= Len(s) /\ SubSeq(s, Len(s) - Len(t) + 1, Len(s)) = t

\* "".join(PurePath(name).suffixes): the name from its first dot on, leading
\* dots not counted; empty when there is no dot or the name ends with one.
RECURSIVE LStripDots(_)
LStripDots(s) ==
  IF s # << >> /\ Head(s) = "." THEN LStripDots(Tail(s)) ELSE s

RECURSIVE FromFirstDot(_)
FromFirstDot(s) ==
  IF s = << >> THEN << >>
  ELSE IF Head(s) = "." THEN s ELSE FromFirstDot(Tail(s))

Suffixes(name) ==
  IF name = << >> \/ name[Len(name)] = "." THEN << >>
  ELSE FromFirstDot(LStripDots(name))

\* PurePath(entry).parts
PathParts(raw) ==
  IF Len(raw) > 1 /\ raw[1] = ""
  THEN <<"/">> \o FilterSeq(raw, {"", "."})
  ELSE FilterSeq(raw, {"", "."})

\* ------------------------------------------------------------- filesystem
\* prepare_qiime_dir(): the retention root.
QiimeRoot == Append(HomeDir, QIIME_DIR_NAME)

RootChildren(ds) == {d \in ds : Len(d) = Len(QiimeRoot) + 1 /\ IsPrefix(QiimeRoot, d)}

MarkerPath(d) == Append(d, QIIME_TIMESTAMP_FILE)

HasMarker(fs, d) == MarkerPath(d) \in DOMAIN fs

\* Every ancestor of p, p excluded, the root "/" excluded.
Ancestors(p) == {SubSeq(p, 1, n) : n \in 1..(Len(p) - 1)}

\* shutil.rmtree(d)
RmtreeDirs(ds, d) == {x \in ds : ~IsPrefix(d, x)}

RmtreeFiles(fs, d) == [x \in {y \in DOMAIN fs : ~IsPrefix(d, y)} |-> fs[x]]

WriteFile(fs, p, c) == [x \in DOMAIN fs \cup {p} |-> IF x = p THEN c ELSE fs[x]]

\* root.glob("*/_created") tests each child of the root for the marker name.
GlobMatches(ds, fs, d) == MarkerPath(d) \in DOMAIN fs \/ MarkerPath(d) \in ds

\* datetime.strptime(datestr, "%Y-%m-%d") accepts a date and nothing else.
IsDate(c) == c >= 0

\* ------------------------------------------------------ the archive writer
\* make_writer(handler, archive_format): the writer class, or the exception.
make_writer(archive_format) ==
  IF archive_format = <<"z", "i", "p">> THEN "ZipFile"
  ELSE IF archive_format = <<"t", "g", "z">> THEN "TarFile"
  ELSE "ValueError"

\* "{}.{}".format(archive_name, archive_format), line 54.
archive_filename(archive_name, archive_format) ==
  archive_name \o <<".">> \o archive_format

\* os.walk(archive_path), top down: for each directory the non-directories
\* in it, then each real subdirectory in turn; a symbolic link to a directory
\* is listed among the directories and not walked into.
FilesIn(t, d) ==
  SelectSeq(t.nodes, LAMBDA n : Parent(n.path) = d /\ Len(n.path) = Len(d) + 1
                                /\ n.kind \in {"file", "linkfile"})

DirsIn(t, d) ==
  SelectSeq(t.nodes, LAMBDA n : Parent(n.path) = d /\ Len(n.path) = Len(d) + 1
                                /\ n.kind = "dir")

RECURSIVE Walk(_, _), WalkAll(_, _)
Walk(t, d) ==
  [i \in 1..Len(FilesIn(t, d)) |->
     [root |-> d, filename |-> FilesIn(t, d)[i].path[Len(d) + 1],
      kind |-> FilesIn(t, d)[i].kind]]
  \o WalkAll(t, DirsIn(t, d))

WalkAll(t, ds) ==
  IF ds = << >> THEN << >> ELSE Walk(t, Head(ds).path) \o WalkAll(t, Tail(ds))

\* A slip of the arcname below: the directory part left out.
ArcName_BareName(root, filename) == <<filename>>

\* os.path.join(root[len(archive_path):], filename), line 71: the slice is
\* empty for archive_path itself and starts with "/" below it.
ArcName(root, filename) ==
  (IF root = << >> THEN << >> ELSE <<"">> \o root) \o <<filename>>

\* The name the codec stores for an arcname: leading separators stripped.
RECURSIVE StoredName(_)
StoredName(arcname) ==
  IF arcname # << >> /\ Head(arcname) = "" THEN StoredName(Tail(arcname))
  ELSE arcname

\* The stored names of the archive of tree t, in the order they are added.
StoredNames(t) ==
  [i \in 1..Len(Walk(t, << >>)) |->
     StoredName(ArcName(Walk(t, << >>)[i].root, Walk(t, << >>)[i].filename))]

\* The archive a create-archive request for tree t in format fmt produces, as
\* a file for the extract endpoint: saved under the name the response offers
\* (content-disposition), or under that name with the suffix changed to .qzv.
WriteArchive(t, fmt, asQzv) ==
  [name |-> IF asQzv THEN Trees[t].base \o <<".", "q", "z", "v">>
            ELSE archive_filename(Trees[t].base, fmt),
   container |-> IF make_writer(fmt) = "ZipFile" THEN "zip" ELSE "tar",
   entries |-> StoredNames(Trees[t])]

\* The trees of regular files and directories, each in each supported format
\* under each of the two names.
RoundTripCases ==
  LET zip == <<"z", "i", "p">>
      tgz == <<"t", "g", "z">>
      plain == SelectSeq([i \in TreeIds |-> i],
                         LAMBDA t : \A j \in DOMAIN Trees[t].nodes :
                                      Trees[t].nodes[j].kind \in {"file", "dir"})
      of(t) == << [tree |-> t, format |-> zip, asQzv |-> FALSE],
                  [tree |-> t, format |-> zip, asQzv |-> TRUE],
                  [tree |-> t, format |-> tgz, asQzv |-> FALSE],
                  [tree |-> t, format |-> tgz, asQzv |-> TRUE] >>
      all[n \in 0..Len(plain)] ==
        IF n = 0 THEN << >> ELSE all[n - 1] \o of(plain[n]) IN
  all[Len(plain)]

RoundTripArchives ==
  [k \in DOMAIN RoundTripCases |->
     WriteArchive(RoundTripCases[k].tree, RoundTripCases[k].format,
                  RoundTripCases[k].asQzv)]

\* ------------------------------------------------------------ the handler
\* Every archive file a request of some specification can name.
Catalog == Archives \o EdgeArchives \o RoundTripArchives

RoundTripIds ==
  (Len(Archives) + Len(EdgeArchives) + 1)..Len(Catalog)

\* The source tree of the round-trip archive a.
TreeOf(a) == Trees[RoundTripCases[a - Len(Archives) - Len(EdgeArchives)].tree]

\* make_reader(archive_path): the reader class, or the exception raised.
make_reader(a) ==
  IF EndsWith(Suffixes(Catalog[a].name), <<".", "q", "z", "v">>)
  THEN IF Catalog[a].container = "zip" THEN "ZipFile" ELSE "BadZipFile"
  ELSE "ValueError"

\* get_uuid(qzv_path): the identifier, "None", or the exception raised.
get_uuid(a) ==
  IF Catalog[a].container # "zip" THEN "BadZipFile"
  ELSE IF Catalog[a].entries = << >> THEN "IndexError"
  ELSE IF PathParts(Catalog[a].entries[1]) = << >> THEN "None"
  ELSE PathParts(Catalog[a].entries[1])[1]

\* os.path.relpath(archive_destination / name, archive_destination)
\* .startswith(os.pardir), the test of the tar branch of extract_qzv.
RECURSIVE NormRel(_, _)
NormRel(acc, segs) ==
  IF segs = << >> THEN acc
  ELSE IF Head(segs) \in {"", "."} THEN NormRel(acc, Tail(segs))
  ELSE IF Head(segs) = ".." /\ acc # << >> /\ acc[Len(acc)] # ".."
       THEN NormRel(Parent(acc), Tail(segs))
       ELSE NormRel(Append(acc, Head(segs)), Tail(segs))

UnsafeName(raw) ==
  IF Len(raw) > 1 /\ raw[1] = "" THEN FALSE
  ELSE LET rel == NormRel(<< >>, raw) IN rel # << >> /\ rel[1] = ".."

\* Two slips of the comparison below: the boundary day taken in, and the
\* comparison turned round.
Outdated_AtThreshold(age) == age >= interval_threshold

Outdated_Reversed(age) == age < interval_threshold

\* The delta.days > interval_threshold test of cleanup_qiime_dir.
Outdated(age) == age > interval_threshold

\* Where ZipFile.extractall puts an entry: the empty, "." and ".." segments
\* of the stored name are dropped and the rest is joined to the destination.
ExtractTarget(raw) == QiimeRoot \o FilterSeq(raw, {"", ".", ".."})

EntryIsDir(raw) == raw[Len(raw)] = ""

\* Path.home() / QIIME_DIR_NAME / uuid_str / QIIME_TIMESTAMP_FILE, as opened.
TimestampPath(uuid) ==
  Resolve(<< >>, (IF uuid = "/" THEN << >> ELSE Append(QiimeRoot, uuid))
                 \o <<QIIME_TIMESTAMP_FILE>>)

\* ZipStream.__init__ and the ZipStream as its caller sees it: the position,
\* the data passed to write() so far and what the last tell() returned.
NewStream == [position |-> 0, log |-> << >>, told |-> 0, calls |-> 0]

\* The response of a request handler as Tornado creates it: the headers set,
\* the cookie set, the write buffer, and what has gone out on the connection.
NewResponse ==
  [headers |-> {}, cookie |-> "", status |-> 200, buf |-> << >>,
   written |-> FALSE, wire |-> << >>, wireHeaders |-> {}, wireCookie |-> "",
   wireStatus |-> 0, finished |-> FALSE]

\* RequestHandler.write(chunk), as ZipStream.write calls it: the chunk joins
\* the write buffer of the response.
HandlerWrite(h, data) == [h EXCEPT !.buf = Append(@, data)]

\* RequestHandler.flush(), as ZipStream.flush calls it: the buffer goes out on
\* the connection, after the headers and the cookie of that moment if this is
\* the first flush of the response.
HandlerFlush(h) ==
  [h EXCEPT !.wire = @ \o h.buf, !.buf = << >>, !.written = TRUE,
            !.wireHeaders = IF h.written THEN @ ELSE h.headers,
            !.wireCookie = IF h.written THEN @ ELSE h.cookie,
            !.wireStatus = IF h.written THEN @ ELSE h.status]

\* A ZipStream z is its own fields z.s and the handler z.h it holds.
\* A slip of ZipStream.write: the position counts calls, not bytes.
write_CountsCalls(z, data) ==
  [s |-> [z.s EXCEPT !.position = @ + 1, !.log = Append(@, data)],
   h |-> HandlerWrite(z.h, data)]

\* ZipStream.write(data)
write(z, data) ==
  [s |-> [z.s EXCEPT !.position = @ + Len(data), !.log = Append(@, data)],
   h |-> HandlerWrite(z.h, data)]

\* ZipStream.tell()
tell(z) == z.s.position

\* ZipStream.flush()
flush(z) == [z EXCEPT !.h = HandlerFlush(z.h)]

\* The ZipStream of request w with the handler it was made for.
StreamOf(w) == [s |-> stream[w], h |-> resp[w]]

IdleWriter ==
  [pc |-> "idle", tree |-> 0, format |-> << >>, token |-> "", todo |-> << >>,
   added |-> << >>, error |-> "none"]

\* No create-archive request is in flight.
NoArchiving ==
  /\ areq = [w \in Writers |-> IdleWriter]
  /\ resp = [w \in Writers |-> NewResponse]
  /\ stream = [w \in Writers |-> NewStream]

IdleReq ==
  [pc |-> "idle", arch |-> 0, uuid |-> "", status |-> 0, body |-> "none",
   error |-> "none", at |-> "none", today |-> 0, cands |-> {}, idx |-> 0,
   sweeps |-> 0, removed |-> {}, deleted |-> FALSE, wrote |-> FALSE,
   read |-> FALSE, sweepFailed |-> FALSE, snap |-> << >>, bare |-> {}]

\* The retention root as two earlier requests left it, b.qzv extracted on
\* day 0 and an archive of u1/f1 on day 1, each directory with its payload and
\* its marker; today the older one has just reached the threshold.
Init ==
  /\ day = interval_threshold
  /\ dirs = {HomeDir, QiimeRoot, Append(QiimeRoot, "u1"), Append(QiimeRoot, "u2")}
  /\ files = (<<"home", "_qiime", "u2", "f1">> :> Payload)
               @@ (<<"home", "_qiime", "u2", "_created">> :> 0)
               @@ (<<"home", "_qiime", "u1", "f1">> :> Payload)
               @@ (<<"home", "_qiime", "u1", "_created">> :> 1)
  /\ req = [r \in Reqs |-> IdleReq]
  /\ loop = NoReq
  /\ NoArchiving

\* The request ends in an exception raised at stage `at`.
Fail(rec, at, st, err, bd) ==
  [rec EXCEPT !.pc = "done", !.at = at, !.status = st, !.error = err,
              !.body = bd, !.idx = 0]

\* ExtractQzvHandler.get, lines 80-107 up to the glob of cleanup_qiime_dir:
\* the policy checks, get_uuid, prepare_qiime_dir and the listing of the root.
GetFrom(r, ids) ==
  /\ req[r].pc = "idle"
  /\ loop = NoReq
  /\ \E a \in ids, hidden \in BOOLEAN, hubuser \in {"jovyan", ""} :
       \* line 98: from here on the request has its archive's path
       LET r0 == [req[r] EXCEPT !.arch = a] IN
       IF hidden
       THEN /\ req' = [req EXCEPT ![r] =
                        Fail(req[r], "policy", 404, "HTTP404", "none")]
            /\ UNCHANGED <<dirs, loop>>
       ELSE IF hubuser = ""
       THEN /\ req' = [req EXCEPT ![r] =
                        Fail(req[r], "policy", 500, "NoUser", "data:msg")]
            /\ UNCHANGED <<dirs, loop>>
       ELSE LET u == get_uuid(a)
                r1 == [r0 EXCEPT !.read = TRUE] IN
            IF u \in {"BadZipFile", "IndexError"}
            THEN /\ req' = [req EXCEPT ![r] = Fail(r1, "get_uuid", 500, u, "none")]
                 /\ UNCHANGED <<dirs, loop>>
            ELSE IF u = "None"
            THEN /\ req' = [req EXCEPT ![r] =
                             Fail(r1, "get_uuid", 500, "NoUUID", "data:msg")]
                 /\ UNCHANGED <<dirs, loop>>
            ELSE LET ds == dirs \cup {QiimeRoot}
                     cs == RootChildren(ds) IN
                 /\ dirs' = ds
                 /\ loop' = r
                 /\ req' = [req EXCEPT ![r] =
                      [r1 EXCEPT !.uuid = u, !.today = day, !.cands = cs,
                                 !.sweeps = @ + 1,
                                 !.pc = IF cs = {} THEN "swept" ELSE "sweep",
                                 !.snap = [d \in {c \in cs : HasMarker(files, c)}
                                           |-> day - files[MarkerPath(d)]],
                                 !.bare = {c \in cs : ~HasMarker(files, c)}]]
  /\ UNCHANGED <<day, files>>
  /\ UNCHANGED avars

\* A request for one of the archive files of the test suite.
Get(r) == GetFrom(r, ArchiveIds)

\* A request for an archive with an unusual first entry, or for the one of
\* two files in one directory; the latter is requested by one client only,
\* so that no two requests in flight unpack into the same directory.
GetEdge(r) ==
  GetFrom(r, IF r = CHOOSE x \in Reqs : TRUE THEN EdgeIds
             ELSE {a \in EdgeIds : Len(Catalog[a].entries) = 1})

\* A request for an archive the create-archive endpoint has produced.
GetRoundTrip(r) == GetFrom(r, RoundTripIds)

\* One turn of the loop of cleanup_qiime_dir, lines 63-74, on candidate d.
SweepStep(r) ==
  /\ req[r].pc = "sweep"
  /\ \E d \in req[r].cands, readFails \in BOOLEAN, rmFails \in BOOLEAN :
       LET rest == req[r].cands \ {d}
           next == IF rest = {} THEN "swept" ELSE "sweep"
           skip == [req[r] EXCEPT !.cands = rest, !.pc = next] IN
       /\ ~(readFails /\ rmFails)
       /\ IF ~GlobMatches(dirs, files, d)
          THEN /\ ~readFails /\ ~rmFails
               /\ req' = [req EXCEPT ![r] = skip]
               /\ UNCHANGED <<dirs, files, loop>>
          ELSE IF readFails \/ MarkerPath(d) \in dirs
                  \/ ~IsDate(files[MarkerPath(d)])
          THEN \* p.open(), f.read() or strptime raises: nothing catches it
               /\ ~rmFails
               /\ req' = [req EXCEPT ![r] =
                    Fail([req[r] EXCEPT !.cands = rest, !.sweepFailed = TRUE],
                         "sweep", 500,
                         IF readFails \/ MarkerPath(d) \in dirs
                         THEN "OSError" ELSE "ValueError", "none")]
               /\ loop' = NoReq
               /\ UNCHANGED <<dirs, files>>
          ELSE IF ~Outdated(req[r].today - files[MarkerPath(d)])
          THEN /\ ~rmFails
               /\ req' = [req EXCEPT ![r] = skip]
               /\ UNCHANGED <<dirs, files, loop>>
          ELSE IF rmFails
          THEN \* shutil.rmtree raises OSError: logged, the loop goes on
               /\ req' = [req EXCEPT ![r] = [skip EXCEPT !.sweepFailed = TRUE]]
               /\ UNCHANGED <<dirs, files, loop>>
          ELSE /\ dirs' = RmtreeDirs(dirs, d)
               /\ files' = RmtreeFiles(files, d)
               /\ req' = [req EXCEPT ![r] = [skip EXCEPT !.removed = @ \cup {d},
                                                           !.deleted = TRUE]]
               /\ UNCHANGED <<loop>>
  /\ UNCHANGED day
  /\ UNCHANGED avars

\* Line 108 and extract_qzv up to the opening of the reader, lines 117-121:
\* the extraction is handed to the executor and the loop is free again.
RunInExecutor(r) ==
  /\ req[r].pc = "swept"
  /\ LET a == req[r].arch
         rd == make_reader(a)
         unsafe == rd = "TarFile"
                   /\ \E i \in DOMAIN Catalog[a].entries :
                        UnsafeName(Catalog[a].entries[i]) IN
     req' = [req EXCEPT ![r] =
       [(IF rd \in {"ValueError", "BadZipFile"}
         THEN Fail(req[r], "make_reader", 500, rd, "none")
         ELSE IF unsafe THEN Fail(req[r], "extract_qzv", 400, "HTTP400", "none")
         ELSE [req[r] EXCEPT !.pc = IF Catalog[a].entries = << >>
                                    THEN "extracted" ELSE "extractall",
                             !.idx = 1])
        EXCEPT !.today = 0, !.removed = {}, !.snap = << >>, !.bare = {}]]
  /\ loop' = NoReq
  /\ UNCHANGED <<day, dirs, files>>
  /\ UNCHANGED avars

\* archive.extractall(archive_destination), line 136: one member per step,
\* in the executor thread.
ExtractMember(r) ==
  /\ req[r].pc = "extractall"
  /\ LET a == req[r].arch
         raw == Catalog[a].entries[req[r].idx]
         target == ExtractTarget(raw)
         last == req[r].idx = Len(Catalog[a].entries)
         clash == \/ Ancestors(target) \cap DOMAIN files # {}
                  \/ EntryIsDir(raw) /\ target \in DOMAIN files
                  \/ ~EntryIsDir(raw) /\ target \in dirs IN
     \E ioFails \in BOOLEAN :
       /\ ioFails => ~clash
       /\ IF clash \/ ioFails
          THEN /\ req' = [req EXCEPT ![r] =
                             Fail(req[r], "extractall", 500, "OSError", "none")]
               /\ UNCHANGED <<dirs, files>>
          ELSE /\ dirs' = dirs \cup Ancestors(target)
                             \cup (IF EntryIsDir(raw) THEN {target} ELSE {})
               /\ files' = IF EntryIsDir(raw) THEN files
                           ELSE WriteFile(files, target, Payload)
               /\ req' = [req EXCEPT ![r] =
                    [req[r] EXCEPT !.wrote = TRUE, !.idx = @ + 1,
                                   !.pc = IF last THEN "extracted" ELSE "extractall"]]
  /\ UNCHANGED <<day, loop>>
  /\ UNCHANGED avars

\* Lines 109-114: write_timestamp(uuid_str) and the answer, back on the loop.
Finish(r) ==
  /\ req[r].pc = "extracted"
  /\ loop = NoReq
  /\ LET p == TimestampPath(req[r].uuid)
         clash == \/ Parent(p) # << >> /\ Parent(p) \notin dirs
                  \/ p \in dirs IN
     \E ioFails \in BOOLEAN :
       /\ ioFails => ~clash
       /\ IF clash \/ ioFails
          THEN /\ req' = [req EXCEPT ![r] =
                             Fail(req[r], "write_timestamp", 500, "OSError", "none")]
               /\ UNCHANGED files
          ELSE /\ files' = WriteFile(files, p, day)
               /\ req' = [req EXCEPT ![r] =
                    [req[r] EXCEPT !.pc = "done", !.status = 200, !.body = "data:url",
                                   !.idx = 0,
                                   !.wrote = TRUE]]
  /\ UNCHANGED <<day, dirs, loop>>
  /\ UNCHANGED avars

\* The answer is delivered; the next request of this client starts afresh.
Deliver(r) ==
  /\ req[r].pc = "done"
  /\ req' = [req EXCEPT ![r] = IdleReq]
  /\ UNCHANGED <<day, dirs, files, loop>>
  /\ UNCHANGED avars

\* datetime.date.today() moves on.
Tick ==
  /\ day < MaxDay
  /\ day' = day + 1
  /\ UNCHANGED <<dirs, files, req, loop>>
  /\ UNCHANGED avars

Next ==
  \/ \E r \in Reqs : Get(r)
  \/ \E r \in Reqs : SweepStep(r)
  \/ \E r \in Reqs : RunInExecutor(r)
  \/ \E r \in Reqs : ExtractMember(r)
  \/ \E r \in Reqs : Finish(r)
  \/ \E r \in Reqs : Deliver(r)
  \/ Tick

Spec == Init /\ [][Next]_vars

TypeOK ==
  /\ day \in interval_threshold..MaxDay
  /\ loop \in Reqs \cup Writers \cup {NoReq}

\* The extract endpoint on the archives of EdgeArchives.
NextEdge ==
  \/ \E r \in Reqs : GetEdge(r)
  \/ \E r \in Reqs : SweepStep(r)
  \/ \E r \in Reqs : RunInExecutor(r)
  \/ \E r \in Reqs : ExtractMember(r)
  \/ \E r \in Reqs : Finish(r)
  \/ \E r \in Reqs : Deliver(r)
  \/ Tick

SpecEdge == Init /\ [][NextEdge]_vars

\* A retention root that does not exist yet.
InitFresh ==
  /\ day = interval_threshold
  /\ dirs = {HomeDir}
  /\ files = << >>
  /\ req = [r \in Reqs |-> IdleReq]
  /\ loop = NoReq
  /\ NoArchiving

\* The extract endpoint on the archives the create-archive endpoint produces.
NextRoundTrip ==
  \/ \E r \in Reqs : GetRoundTrip(r)
  \/ \E r \in Reqs : SweepStep(r)
  \/ \E r \in Reqs : RunInExecutor(r)
  \/ \E r \in Reqs : ExtractMember(r)
  \/ \E r \in Reqs : Finish(r)
  \/ \E r \in Reqs : Deliver(r)
  \/ Tick

SpecRoundTrip == InitFresh /\ [][NextRoundTrip]_vars

\* ------------------------------------------------------------ the ZipStream
\* The data a caller passes to write(): zipfile passes the empty archive
\* comment too.
Chunks == {<< >>, <<"a">>, <<"b", "c">>}

\* The calls made so far on the ZipStreams of the requests ws.
RECURSIVE CallsOf(_)
CallsOf(ws) ==
  IF ws = {} THEN 0
  ELSE LET w == CHOOSE x \in ws : TRUE IN stream[w].calls + CallsOf(ws \ {w})

\* A caller writes data to the ZipStream of w.
StreamWrite(w) ==
  /\ CallsOf(Writers) < MaxCalls
  /\ \E data \in Chunks :
       LET z == write(StreamOf(w), data) IN
       /\ stream' = [stream EXCEPT ![w] = [z.s EXCEPT !.calls = @ + 1]]
       /\ resp' = [resp EXCEPT ![w] = z.h]
  /\ UNCHANGED <<day, dirs, files, req, loop, areq>>

\* A caller asks the ZipStream of w for its position.
StreamTell(w) ==
  /\ CallsOf(Writers) < MaxCalls
  /\ stream' = [stream EXCEPT ![w] =
                  [@ EXCEPT !.told = tell(StreamOf(w)), !.calls = @ + 1]]
  /\ UNCHANGED <<day, dirs, files, req, loop, areq, resp>>

\* A caller flushes the ZipStream of w.
StreamFlush(w) ==
  /\ CallsOf(Writers) < MaxCalls
  /\ LET z == flush(StreamOf(w)) IN
       /\ stream' = [stream EXCEPT ![w] = [z.s EXCEPT !.calls = @ + 1]]
       /\ resp' = [resp EXCEPT ![w] = z.h]
  /\ UNCHANGED <<day, dirs, files, req, loop, areq>>

NextStream ==
  \/ \E w \in Writers : StreamWrite(w)
  \/ \E w \in Writers : StreamTell(w)
  \/ \E w \in Writers : StreamFlush(w)

\* Two ZipStreams under every sequence of calls.
SpecStream == Init /\ [][NextStream]_vars

\* ------------------------------------------------- the create-archive handler
\* The three headers set at lines 57-62.
ResponseHeaders == {"content-type", "cache-control", "content-disposition"}

\* RequestHandler.finish(): what is left goes out and the response is closed.
HandlerFinish(h) == [HandlerFlush(h) EXCEPT !.finished = TRUE]

\* An exception leaves get(): with nothing sent yet the response is cleared
\* and an error page is sent with status 500; with the headers already out
\* the response can only be closed as it is.
SendError(h) ==
  IF h.written THEN HandlerFinish(h)
  ELSE HandlerFinish([h EXCEPT !.headers = {}, !.status = 500,
                               !.buf = << <<"error", "page">> >>])

\* What the codec writes for one member: zipfile a local header, the data
\* and a data descriptor; tarfile a header block and the padded data, and for
\* a symbolic link the header block alone.
EntryChunks(writer, name, kind) ==
  IF writer = "ZipFile" THEN << <<"PK34">> \o name, <<"data">>, <<"PK78">> >>
  ELSE IF kind = "linkfile" THEN << <<"ustar">> \o name >>
  ELSE << <<"ustar">> \o name, <<"data", "pad">> >>

\* What the codec writes on close: zipfile the central directory, the end
\* record and the empty comment; tarfile the closing zero blocks.
EndChunks(writer, names) ==
  IF writer = "ZipFile"
  THEN [i \in 1..Len(names) |-> <<"PK12">> \o names[i]] \o << <<"PK56">>, << >> >>
  ELSE << <<"zero", "zero">> >>

RECURSIVE WriteAll(_, _)
WriteAll(z, chunks) ==
  IF chunks = << >> THEN z ELSE WriteAll(write(z, Head(chunks)), Tail(chunks))

\* The close() of the with block, line 67: zipfile flushes its file object
\* after the end record, tarfile does not.
CloseWriterOn(writer, z, names) ==
  IF writer = "ZipFile" THEN flush(WriteAll(z, EndChunks(writer, names)))
  ELSE WriteAll(z, EndChunks(writer, names))

\* The event loop calls get() of a request when it is not running another
\* handler: get() is a coroutine without a yield, so once called it keeps the
\* loop until it returns.
CanStart(w) == areq[w].pc = "idle" /\ loop = NoReq

\* ArchiveHandler.get, lines 48-68: the arguments, the headers, make_writer
\* and the start of the walk, on the event loop.
ArchiveGet(w) ==
  /\ CanStart(w)
  /\ \E t \in TreeIds, fmt \in Formats, tok \in Tokens :
       LET h0 == [resp[w] EXCEPT !.headers = ResponseHeaders]
           a0 == [areq[w] EXCEPT !.tree = t, !.format = fmt, !.token = tok]
           todo == Walk(Trees[t], << >>) IN
       IF make_writer(fmt) = "ValueError"
       THEN /\ areq' = [areq EXCEPT ![w] =
                          [a0 EXCEPT !.pc = "done", !.error = "ValueError"]]
            /\ resp' = [resp EXCEPT ![w] = SendError(h0)]
            /\ UNCHANGED loop
       ELSE /\ areq' = [areq EXCEPT ![w] =
                          [a0 EXCEPT !.todo = todo,
                                     !.pc = IF todo = << >> THEN "closing"
                                            ELSE "adding"]]
            /\ resp' = [resp EXCEPT ![w] = h0]
            /\ loop' = w
  /\ UNCHANGED <<day, dirs, files, req, stream>>

\* writer.add(file_path, arcname), lines 69-71, for the next file of the walk.
AddFile(w) ==
  /\ areq[w].pc = "adding"
  /\ LET item == Head(areq[w].todo)
         writer == make_writer(areq[w].format)
         name == StoredName(ArcName(item.root, item.filename))
         rest == Tail(areq[w].todo) IN
     \E ioFails \in BOOLEAN :
       IF ioFails
       THEN \* the file cannot be read: the with block closes the writer on
            \* the way out (tarfile writes nothing then) and get() raises
            LET z == IF writer = "ZipFile"
                     THEN CloseWriterOn(writer, StreamOf(w), areq[w].added)
                     ELSE StreamOf(w) IN
            /\ areq' = [areq EXCEPT ![w] =
                          [@ EXCEPT !.pc = "done", !.error = "OSError",
                                    !.todo = << >>]]
            /\ stream' = [stream EXCEPT ![w] = z.s]
            /\ resp' = [resp EXCEPT ![w] = SendError(z.h)]
            /\ loop' = NoReq
       ELSE LET z == WriteAll(StreamOf(w), EntryChunks(writer, name, item.kind)) IN
            /\ areq' = [areq EXCEPT ![w] =
                          [@ EXCEPT !.todo = rest, !.added = Append(@, name),
                                    !.pc = IF rest = << >> THEN "closing"
                                           ELSE "adding"]]
            /\ stream' = [stream EXCEPT ![w] = z.s]
            /\ resp' = [resp EXCEPT ![w] = z.h]
            /\ UNCHANGED loop
  /\ UNCHANGED <<day, dirs, files, req>>

\* The end of the with block, line 67: the writer is closed.
CloseWriter(w) ==
  /\ areq[w].pc = "closing"
  /\ LET z == CloseWriterOn(make_writer(areq[w].format), StreamOf(w),
                            areq[w].added) IN
       /\ stream' = [stream EXCEPT ![w] = z.s]
       /\ resp' = [resp EXCEPT ![w] = z.h]
  /\ areq' = [areq EXCEPT ![w] = [@ EXCEPT !.pc = "closed"]]
  /\ UNCHANGED <<day, dirs, files, req, loop>>

\* Line 73, set_cookie, and the return of get(): Tornado finishes the
\* response and the event loop is free.
SetCookie(w) ==
  /\ areq[w].pc = "closed"
  /\ resp' = [resp EXCEPT ![w] =
                HandlerFinish([@ EXCEPT !.cookie = areq[w].token])]
  /\ areq' = [areq EXCEPT ![w] = [@ EXCEPT !.pc = "done"]]
  /\ loop' = NoReq
  /\ UNCHANGED <<day, dirs, files, req, stream>>

\* The client has the response; the next request starts afresh.
DeliverArchive(w) ==
  /\ areq[w].pc = "done"
  /\ areq' = [areq EXCEPT ![w] = IdleWriter]
  /\ resp' = [resp EXCEPT ![w] = NewResponse]
  /\ stream' = [stream EXCEPT ![w] = NewStream]
  /\ UNCHANGED <<day, dirs, files, req, loop>>

NextArchive ==
  \/ \E w \in Writers : ArchiveGet(w)
  \/ \E w \in Writers : AddFile(w)
  \/ \E w \in Writers : CloseWriter(w)
  \/ \E w \in Writers : SetCookie(w)
  \/ \E w \in Writers : DeliverArchive(w)

\* The create-archive endpoint alone.
SpecArchive == Init /\ [][NextArchive]_vars

\* ------------------------------------------------------------------ claims
\* The request r has been answered, and neither by the policy checks of lines
\* 83-96 (hidden file, hub user) nor by a failing filesystem call, which the
\* claims that use this are not about.
Answered(r) ==
  req[r].pc = "done" /\ req[r].at # "policy" /\ req[r].error # "OSError"

\* The archive holds an entry whose stored path begins with "..".
HasTraversal(a) ==
  \E i \in DOMAIN Catalog[a].entries : Catalog[a].entries[i][1] = ".."

\* The format tokens the specification lists, and the container of each.
FormatTokens ==
  { <<"z", "i", "p">>, <<"t", "g", "z">>, <<"t", "a", "r", ".", "g", "z">>,
    <<"t", "b", "z">>, <<"t", "b", "z", "2">>, <<"t", "a", "r", ".", "b", "z">>,
    <<"t", "a", "r", ".", "b", "z", "2">>, <<"t", "x", "z">>,
    <<"t", "a", "r", ".", "x", "z">> }

ContainerOf(token) == IF token = <<"z", "i", "p">> THEN "zip" ELSE "tar"

\* The file name ends in "." followed by a format token, and the bytes are
\* of that token's container.
RecognizedName(a) ==
  \E t \in FormatTokens :
    /\ EndsWith(Catalog[a].name, <<".">> \o t)
    /\ Catalog[a].container = ContainerOf(t)

\* The file name ends in a format token that only follows a prefix.
SpoofedName(a) ==
  /\ \E t \in FormatTokens : EndsWith(Catalog[a].name, t)
  /\ \A t \in FormatTokens : ~EndsWith(Catalog[a].name, <<".">> \o t)

\* The payload files found under directory d.
PayloadUnder(d) ==
  {f \in DOMAIN files : IsPrefix(d, f) /\ f # MarkerPath(d)}

\* C1: an extract request for an archive that holds an entry whose path
\* begins with a parent-directory segment is answered with status 400.
C1_TraversalIs400 ==
  \A r \in Reqs :
    Answered(r) /\ HasTraversal(req[r].arch)
      => req[r].status = 400

\* C2: an extract request for an archive that holds a traversal entry has,
\* when it is answered, written nothing under the destination root and
\* removed nothing from it.
C2_TraversalLeavesRootUnchanged ==
  \A r \in Reqs :
    Answered(r) /\ HasTraversal(req[r].arch)
      => ~req[r].wrote /\ ~req[r].deleted

\* C3: an extract request for a file whose name only ends in a format token
\* after a prefix fails with the unsupported-format error without the
\* content of the file having been read, and has written nothing.
C3_SpoofedFailsBeforeRead ==
  \A r \in Reqs :
    Answered(r) /\ SpoofedName(req[r].arch)
      => req[r].error = "ValueError" /\ ~req[r].read /\ ~req[r].wrote

\* C4: an extract request for a well-formed archive whose name ends in a
\* recognized format suffix is answered 200, and the archive's top-level
\* directory then exists and holds exactly the files of the archive.
C4_RecognizedSuffixExtracts ==
  \A r \in Reqs :
    LET a == req[r].arch IN
    Answered(r) /\ RecognizedName(a) /\ ~HasTraversal(a)
      => /\ req[r].status = 200
         /\ Append(QiimeRoot, req[r].uuid) \in dirs
         /\ PayloadUnder(Append(QiimeRoot, req[r].uuid))
              = {ExtractTarget(Catalog[a].entries[i]) :
                   i \in DOMAIN Catalog[a].entries}

\* C5: when a sweep has ended without a failing filesystem call, the
\* directories it removed are exactly the marker-bearing children of the root
\* whose age in whole days was above the threshold; their markers are gone,
\* and every other child (age equal to the threshold or less, or no marker)
\* is still there with its marker as it was.
C5_SweepRemovesExactlyOutdated ==
  \A r \in Reqs :
    req[r].pc = "swept" /\ ~req[r].sweepFailed
      => LET aged == DOMAIN req[r].snap IN
         /\ req[r].removed = {d \in aged : req[r].snap[d] > interval_threshold}
         /\ \A d \in req[r].removed : ~HasMarker(files, d)
         /\ \A d \in (aged \cup req[r].bare) \ req[r].removed :
              /\ d \in dirs
              /\ d \in aged => /\ HasMarker(files, d)
                               /\ req[r].today - files[MarkerPath(d)] = req[r].snap[d]
              /\ d \in req[r].bare => ~HasMarker(files, d)

\* A sweep has removed a directory and kept one whose age is the threshold.
C5_Witness ==
  \E r \in Reqs :
    /\ req[r].pc = "swept" /\ ~req[r].sweepFailed
    /\ req[r].removed # {}
    /\ \E d \in DOMAIN req[r].snap :
         req[r].snap[d] = interval_threshold /\ d \in dirs

\* C6: a request that ends in the unsafe-path, empty-archive or
\* unsupported-format error has, at that moment, deleted no directory (the
\* retention sweep included) and written no file.
C6_ClientErrorsBeforeMutation ==
  \A r \in Reqs :
    /\ req[r].pc = "done"
    /\ req[r].at \in {"get_uuid", "make_reader", "extract_qzv"}
    /\ req[r].error \in {"HTTP400", "IndexError", "NoUUID", "ValueError"}
    => ~req[r].deleted /\ ~req[r].wrote

\* C7: no request sweeps more than once, and a request that has come to its
\* extraction has swept exactly once; a request writes its marker only after
\* its one sweep has come to its end; and a directory whose marker bears
\* today's date is not removed, nor its marker, while the day lasts.
C7_SweepOnceBeforeMarker ==
  /\ [](\A r \in Reqs :
         /\ req[r].sweeps <= 1
         /\ req[r].pc \in {"sweep", "swept", "extractall", "extracted"}
              => req[r].sweeps = 1
         /\ req[r].status = 200 => req[r].sweeps = 1)
  /\ [][\A r \in Reqs :
          req[r].pc = "extracted" /\ req'[r].status = 200
            => req[r].sweeps = 1 /\ req[r].cands = {} /\ loop # r]_vars
  /\ [][\A d \in RootChildren(dirs) :
          HasMarker(files, d) /\ files[MarkerPath(d)] = day /\ day' = day
            => d \in dirs' /\ HasMarker(files', d)]_vars

\* A sweep has gone over a directory whose marker was written the same day,
\* and the directory and its marker are there.
C7_Witness ==
  \E r \in Reqs :
    /\ req[r].pc = "swept"
    /\ \E d \in DOMAIN req[r].snap :
         req[r].snap[d] = 0 /\ d \in dirs /\ HasMarker(files, d)

\* C8: a filesystem failure on one candidate of the sweep does not end the
\* request in the sweep, and no candidate is left unexamined.
C8_SweepFailureSwallowed ==
  \A r \in Reqs :
    req[r].sweepFailed /\ req[r].pc # "sweep"
      => req[r].at # "sweep" /\ req[r].cands = {}

\* C9: the identifier is the first path segment of the first listed entry,
\* and a request for an archive without entries is answered 500 with the
\* JSON body {"data": message}, no sweep run and nothing extracted.
C9_IdentityOrEmptyArchive ==
  \A r \in Reqs :
    LET a == req[r].arch IN
    /\ req[r].uuid # "" => req[r].uuid = Catalog[a].entries[1][1]
    /\ Answered(r) /\ Catalog[a].container = "zip" /\ Catalog[a].entries = << >>
         => /\ req[r].status = 500
            /\ req[r].body = "data:msg"
            /\ req[r].sweeps = 0
            /\ ~req[r].wrote /\ ~req[r].deleted

\* C10: when a request has been answered 200, every directory that its
\* archive's entries were extracted into under the retention root holds a
\* marker file.
C10_ExtractedDirsHoldMarker ==
  \A r \in Reqs :
    req[r].pc = "done" /\ req[r].status = 200
      => \A i \in DOMAIN Catalog[req[r].arch].entries :
           LET t == ExtractTarget(Catalog[req[r].arch].entries[i])
               top == SubSeq(t, 1, Len(QiimeRoot) + 1) IN
           top \in dirs => HasMarker(files, top)

RECURSIVE SumLen(_)
SumLen(chunks) ==
  IF chunks = << >> THEN 0 ELSE Len(Head(chunks)) + SumLen(Tail(chunks))

\* C15: after any sequence of write and flush calls tell() is the sum of the
\* lengths of the data passed to write() so far, the response has received
\* exactly that data in call order, and a step that writes nothing (flush(),
\* tell()) leaves the position as it was.
C15_StreamTracksPosition ==
  /\ [](\A w \in Writers :
          /\ tell(StreamOf(w)) = SumLen(stream[w].log)
          /\ resp[w].wire \o resp[w].buf = stream[w].log)
  /\ [][\A w \in Writers :
          /\ stream'[w].log = stream[w].log
               => stream'[w].position = stream[w].position
          /\ stream'[w].told # stream[w].told
               => stream'[w].told = SumLen(stream[w].log)]_vars

\* A stream written to twice with a flush in between, its position asked for
\* after the second write.
C15_Witness ==
  \E w \in Writers :
    /\ Len(stream[w].log) = 2
    /\ stream[w].log[1] # << >>
    /\ Len(stream[w].log[2]) > 1
    /\ resp[w].wire = <<stream[w].log[1]>>
    /\ resp[w].buf = <<stream[w].log[2]>>
    /\ stream[w].told = Len(stream[w].log[1]) + Len(stream[w].log[2])

\* The create-archive request w has written its whole archive without error.
Archived(w) ==
  areq[w].pc \in {"closing", "closed", "done"} /\ areq[w].error = "none"

NodePaths(t, kinds) ==
  {t.nodes[i].path : i \in {j \in DOMAIN t.nodes : t.nodes[j].kind \in kinds}}

\* The files and links to files of t that lie in real directories only.
FilesReached(t) ==
  {p \in NodePaths(t, {"file", "linkfile"}) :
     Ancestors(p) \subseteq NodePaths(t, {"dir"})}

\* C14 as stated: the archive holds exactly one entry for each regular file
\* under sourceDir and no entry for anything else, each stored under the
\* file's path relative to sourceDir.
C14_OneEntryPerRegularFile ==
  \A w \in Writers :
    Archived(w) =>
      /\ {areq[w].added[i] : i \in DOMAIN areq[w].added}
           = NodePaths(Trees[areq[w].tree], {"file"})
      /\ Len(areq[w].added) = Cardinality(NodePaths(Trees[areq[w].tree], {"file"}))

\* C14 amended: the archive holds exactly one entry for each regular file and
\* for each symbolic link to a file found under sourceDir in directories
\* reached without following symbolic links, and no entry for a directory
\* or for a symbolic link to a directory; each entry is stored under its
\* path relative to sourceDir.
C14_OneEntryPerFileOrLink ==
  \A w \in Writers :
    Archived(w) =>
      /\ {areq[w].added[i] : i \in DOMAIN areq[w].added}
           = FilesReached(Trees[areq[w].tree])
      /\ Len(areq[w].added) = Cardinality(FilesReached(Trees[areq[w].tree]))

\* A finished archive of a tree with a file two directories down, a file
\* one directory down, a link to a file and a link to a directory.
C14_Witness ==
  \E w \in Writers :
    /\ Archived(w) /\ areq[w].pc = "done"
    /\ <<"a", "b", "f1">> \in NodePaths(Trees[areq[w].tree], {"file"})
    /\ NodePaths(Trees[areq[w].tree], {"linkfile"}) # {}
    /\ NodePaths(Trees[areq[w].tree], {"linkdir"}) # {}
    /\ Len(areq[w].added) = 3

\* The headers are configured before the first archive byte reaches the sink
\* and are on the connection before the first archive byte is.
HeadersBeforeBytes(w) ==
  areq[w].error = "none" =>
    /\ stream[w].log # << >> => ResponseHeaders \subseteq resp[w].headers
    /\ resp[w].wire # << >> => resp[w].wireHeaders = ResponseHeaders

\* The token is set only once the whole archive has been written, and never
\* by a request that fails.
TokenAfterBytes(w) ==
  resp[w].cookie # "" =>
    /\ resp[w].cookie = areq[w].token
    /\ areq[w].pc = "done" /\ areq[w].error = "none"
    /\ areq[w].todo = << >>
    /\ Len(areq[w].added) = Len(Walk(Trees[areq[w].tree], << >>))

\* C13: in a create-archive request the headers are configured before the
\* first archive byte reaches the sink; the token is set as the response
\* cookie only after the last archive byte has been written and is delivered
\* with the response; a request that fails sets no token.
C13_HeadersBytesToken ==
  \A w \in Writers :
    /\ HeadersBeforeBytes(w)
    /\ TokenAfterBytes(w)
    /\ areq[w].pc = "done" /\ areq[w].error = "none"
         => resp[w].finished /\ resp[w].wireCookie = areq[w].token
    /\ areq[w].error # "none" => resp[w].cookie = "" /\ resp[w].wireCookie = ""

\* C11: the long-running work of both operations runs off the event loop:
\* an extraction in progress does not hold the loop, and while a request's
\* archive is being walked and written the loop is free, so that another
\* waiting request can be started.
C11_LongWorkOffLoop ==
  /\ \A r \in Reqs : req[r].pc = "extractall" => loop # r
  /\ \A w \in Writers :
       areq[w].pc \in {"adding", "closing"} =>
         /\ loop # w
         /\ \A v \in Writers \ {w} : areq[v].pc = "idle" => CanStart(v)

\* The paths, from the retention root, of the files under it.
UnderRoot(fs) ==
  {SubSeq(p, Len(QiimeRoot) + 1, Len(p)) :
     p \in {q \in DOMAIN fs : IsPrefix(QiimeRoot, q)}}

\* C12: round trip.  Every extract request for the archive written from a
\* tree T in a supported format succeeds and leaves every file of T, under
\* its relative path and with its content, in the destination; and the
\* destination, empty before, holds no file that is not a file of a tree.
C12_RoundTrip ==
  /\ \A r \in Reqs :
       Answered(r) /\ req[r].arch \in RoundTripIds =>
         /\ req[r].status = 200
         /\ \A p \in NodePaths(TreeOf(req[r].arch), {"file"}) :
              /\ QiimeRoot \o p \in DOMAIN files
              /\ files[QiimeRoot \o p] = Payload
  /\ \A p \in DOMAIN files : IsPrefix(QiimeRoot, p)
  /\ UnderRoot(files)
       \subseteq UNION {NodePaths(Trees[t], {"file"}) : t \in TreeIds}

\* C16: every file an accepted extract request writes, the marker included,
\* lies strictly inside the retention root, and the identifier under which
\* the marker is written is the name of one child directory of the root,
\* also for a first entry that starts with "..", "." or "/".
C16_WritesInsideRoot ==
  /\ \A p \in DOMAIN files : IsPrefix(QiimeRoot, p) /\ Len(p) > Len(QiimeRoot)
  /\ \A r \in Reqs :
       req[r].status = 200 =>
         /\ req[r].uuid \notin {"..", ".", "/"}
         /\ TimestampPath(req[r].uuid)
              = QiimeRoot \o <<req[r].uuid, QIIME_TIMESTAMP_FILE>>
         /\ TimestampPath(req[r].uuid) \in DOMAIN files

\* Every entry of the archive of r lies in the directory of its identifier.
OwnDir(r) ==
  \A i \in DOMAIN Catalog[req[r].arch].entries :
    /\ Catalog[req[r].arch].entries[i][1] = req[r].uuid
    /\ ".." \notin {Catalog[req[r].arch].entries[i][j] :
                      j \in DOMAIN Catalog[req[r].arch].entries[i]}

\* C17: at the moment an extract request answers 200 the directory of its
\* identifier exists, holds a marker with the date of that moment and holds
\* every entry of the archive, whatever the other requests, which use other
\* identifiers, have done in between.
C17_AnsweredDirComplete ==
  [][\A r \in Reqs :
       (/\ req[r].status # 200 /\ req'[r].status = 200
        /\ OwnDir(r)
        /\ \A q \in Reqs \ {r} : req[q].uuid # req[r].uuid) =>
         LET d == Append(QiimeRoot, req[r].uuid) IN
         /\ d \in dirs'
         /\ HasMarker(files', d) /\ files'[MarkerPath(d)] = day'
         /\ \A i \in DOMAIN Catalog[req[r].arch].entries :
              ExtractTarget(Catalog[req[r].arch].entries[i]) \in DOMAIN files']_vars

====
